---- MODULE Spec2Model ----
(***************************************************************************)
(* Model of the devzat plugin client (src/src/lib.rs): Client::new with    *)
(* its AuthInterceptor, Client::send_message, Client::register_listener    *)
(* and Client::register_cmd.                                               *)
(*                                                                         *)
(* Every Client is owned by one task.  The three operations take           *)
(* `&mut self` and are `async fn`s that return only when the whole call,   *)
(* for the register_* functions the whole receive loop, is over; a task is *)
(* therefore inside at most one operation of its Client at a time, and     *)
(* its position in that operation is pc[c].  Tasks of different Clients    *)
(* interleave at the `.await` points.                                      *)
(***************************************************************************)
EXTENDS Integers, Sequences, FiniteSets, TLC

\* ------------------------------------------------------------------ bounds
\* Events and invocations the host delivers, over all its streams.
MaxEvents == 2
\* Operations (register_listener, register_cmd, send_message) the tasks call.
MaxOps == 2

\* ------------------------------------------------------------------ inputs
Clients == {"c1", "c2"}

\* Option<T>: None is <<>>, Some(v) is <<v>>.
None == <<>>
Some(v) == <<v>>
Opt(S) == {None} \cup {Some(v) : v \in S}
is_some(o) == o # None

\* Tokens as sequences of character codes: "tk", "t\n", "e-acute".
Tokens == {<<116, 107>>, <<116, 10>>, <<233>>}
\* "Bearer "
Bearer == <<66, 101, 97, 114, 101, 114, 32>>

Events ==
    {[room |-> "#main", from |-> "ann", msg |-> "hi"],
     [room |-> "#dev", from |-> "bob", msg |-> "yo"]}
CmdInvocations ==
    {[room |-> "#main", from |-> "ann", args |-> "World"],
     [room |-> "#dev", from |-> "bob", args |-> "Rust"]}
\* What a listener callback may return, and what a command callback may return.
Replacements == Opt({"rewritten"})
Replies == {"Hello World!", ""}
\* Listener { middleware, once, regex }, all optional.
Listeners ==
    {[middleware |-> None, once |-> None, regex |-> None],
     [middleware |-> Some(TRUE), once |-> None, regex |-> Some("^h")],
     [middleware |-> Some(FALSE), once |-> Some(TRUE), regex |-> None]}
CmdDefs == {[name |-> "greet", info |-> "Greet someone.", args_info |-> "<name>"]}
\* Arguments of a direct send_message call.
DirectMessages ==
    {[room |-> "#main", from |-> None, msg |-> "hi", ephemeral_to |-> None],
     [room |-> "#dev", from |-> Some("Rusty"), msg |-> "", ephemeral_to |-> Some("ann")],
     [room |-> "#main", from |-> Some(""), msg |-> "hi", ephemeral_to |-> None]}

NoListener == [middleware |-> None, once |-> None, regex |-> None]
NoCall == [method |-> "none", authorization |-> <<>>]
NoClient == [st |-> "none", given |-> <<>>, token |-> <<>>, dials |-> 0, examined |-> FALSE]

\* ------------------------------------------------------------------- state
VARIABLES
    proc,       \* "running", or "aborted" once a panic has ended the process
    client,     \* per task: the outcome of Client::new and the interceptor's token
    pc,         \* per task: where it is in the operation it called
    ret,        \* per task: what its last finished operation returned
    nops,       \* operations called so far, by all tasks
    nevents,    \* frames the host has delivered so far, on all streams
    listener,   \* per task: the Listener given to the running register_listener
    delivered,  \* per task: frames event.message() has yielded in this operation
    calls,      \* per task: arguments the callback was invoked with
    results,    \* per task: what the finished callback invocations returned
    frames,     \* per task: frames written on the request stream of this operation
    stream,     \* per task: the response stream: "none", "open", "eof", "broken", "dropped"
    sends,      \* per task: SendMessage requests issued in this operation
    call,       \* per task: method and metadata of the call this operation opened
    arg,        \* per task: the argument this operation was called with
    unary       \* per task: the last SendMessage call: "none", "pending", "acked", "failed"

vars ==
    <<proc, client, pc, ret, nops, nevents, listener, delivered, calls, results, frames,
      stream, sends, call, arg, unary>>

\* ---------------------------------------------------------------- Client::new
\* MetadataValue<Ascii>::from_str: every character must be visible ASCII or tab.
is_visible_ascii(b) == (b >= 32 /\ b < 127) \/ b = 9
header_parses(s) == \A i \in 1..Len(s) : is_visible_ascii(s[i])

\* format!("Bearer {}", token)
format_bearer(token) == Bearer \o token

\* AuthInterceptor::new: format!(..).parse().unwrap(); "panic" when parse fails.
AuthInterceptor_new(token) ==
    IF header_parses(format_bearer(token))
    THEN [st |-> "ok", token |-> format_bearer(token)]
    ELSE [st |-> "panic", token |-> <<>>]

\* Mutant of Client_new_outcome: the interceptor is built before the dial.
Client_new_outcome_token_first(host_ok, dial_ok, token) ==
    IF ~host_ok
    THEN [st |-> "err", given |-> token, token |-> <<>>, dials |-> 0, examined |-> FALSE]
    ELSE IF AuthInterceptor_new(token).st = "panic"
    THEN [st |-> "panic", given |-> token, token |-> <<>>, dials |-> 0, examined |-> TRUE]
    ELSE IF ~dial_ok
    THEN [st |-> "err", given |-> token, token |-> <<>>, dials |-> 1, examined |-> TRUE]
    ELSE [st |-> "ok", given |-> token, token |-> AuthInterceptor_new(token).token,
          dials |-> 1, examined |-> TRUE]

\* Client::new: Channel::from_shared(host)?.connect().await?, then the
\* interceptor.  The token is looked at only after the dial has succeeded.
Client_new_outcome(host_ok, dial_ok, token) ==
    IF ~host_ok
    THEN [st |-> "err", given |-> token, token |-> <<>>, dials |-> 0, examined |-> FALSE]
    ELSE IF ~dial_ok
    THEN [st |-> "err", given |-> token, token |-> <<>>, dials |-> 1, examined |-> FALSE]
    ELSE [st |-> AuthInterceptor_new(token).st, given |-> token,
          token |-> AuthInterceptor_new(token).token, dials |-> 1, examined |-> TRUE]

\* A panic unwinds the task it happens in.  Whether the rest of the process
\* survives depends on the build (panic = "abort") and on where the caller
\* runs the future (the main task, a join!/select! with other sessions, or a
\* spawned task), so both outcomes are possible.
PanicEffect(c, abort) ==
    /\ pc' = [pc EXCEPT ![c] = "panicked"]
    /\ stream' = [stream EXCEPT ![c] = IF @ = "open" THEN "dropped" ELSE @]
    /\ proc' = IF abort THEN "aborted" ELSE proc

Running == proc = "running"

Client_new(c) ==
    /\ Running /\ pc[c] = "start"
    /\ \E host_ok \in BOOLEAN, dial_ok \in BOOLEAN, token \in Tokens, abort \in BOOLEAN :
         LET out == Client_new_outcome(host_ok, dial_ok, token) IN
         /\ client' = [client EXCEPT ![c] = out]
         /\ IF out.st = "panic"
            THEN /\ PanicEffect(c, abort)
                 /\ ret' = ret
            ELSE /\ abort = FALSE
                 /\ proc' = proc
                 /\ stream' = stream
                 /\ pc' = [pc EXCEPT ![c] = IF out.st = "ok" THEN "idle" ELSE "failed"]
                 /\ ret' = [ret EXCEPT ![c] =
                              IF out.st = "ok" THEN "Ok"
                              ELSE IF out.dials = 0 THEN "Err(InvalidUri)"
                              ELSE "Err(transport::Error)"]
    /\ UNCHANGED <<nevents, nops, listener, delivered, calls, results, frames, sends, call, arg, unary>>

\* ---------------------------------------------------------- operation entry
\* A task calls an operation on its Client.  `&mut self` keeps the Client
\* borrowed until the operation returns, so a call needs the task to be idle.
CanCall(c) == Running /\ pc[c] = "idle" /\ nops < MaxOps

\* Mutant of Interceptor_call: the request goes out as it came.
Interceptor_call_none(c, request) == request

\* Interceptor::call: every request gets the interceptor's token as its
\* authorization metadata.
Interceptor_call(c, request) == [request EXCEPT !.authorization = client[c].token]

\* A call through PluginClient::with_interceptor(channel, auth): its method
\* and the metadata the interceptor has put on it.
open_call(c, method) == Interceptor_call(c, [method |-> method, authorization |-> <<>>])

\* -------------------------------------------------------- Client::send_message
\* Mutant of Message_new: an absent sender is sent as the empty string.
Message_new_default_from(room, from, msg, ephemeral_to) ==
    [room |-> room, from |-> Some(IF is_some(from) THEN from[1] ELSE ""),
     msg |-> msg, ephemeral_to |-> ephemeral_to]

\* Request::new(Message { room, from, msg, ephemeral_to })
Message_new(room, from, msg, ephemeral_to) ==
    [room |-> room, from |-> from, msg |-> msg, ephemeral_to |-> ephemeral_to]

\* self.client.send_message(req): the unary call is issued, once.
issue_send(c, log, room, from, msg, ephemeral_to) ==
    Append(log,
           Interceptor_call(c, [authorization |-> <<>>,
                                message |-> Message_new(room, from, msg, ephemeral_to)]))

\* Mutant of send_result: the error of the call is dropped.
send_result_ok(acked) == "Ok"

\* What send_message returns once the call is over: `.await?` then Ok(()).
send_result(acked) == IF acked THEN "Ok" ELSE "Err(Status)"

\* A direct call of send_message by the owner of the Client.
send_message(c) ==
    /\ CanCall(c)
    /\ \E m \in DirectMessages :
         /\ sends' = [sends EXCEPT ![c] =
                        issue_send(c, <<>>, m.room, m.from, m.msg, m.ephemeral_to)]
         /\ arg' = [arg EXCEPT ![c] = m]
    /\ call' = [call EXCEPT ![c] = open_call(c, "SendMessage")]
    /\ unary' = [unary EXCEPT ![c] = "pending"]
    /\ nops' = nops + 1
    /\ pc' = [pc EXCEPT ![c] = "sending"]
    /\ ret' = [ret EXCEPT ![c] = "none"]
    /\ delivered' = [delivered EXCEPT ![c] = <<>>]
    /\ calls' = [calls EXCEPT ![c] = <<>>]
    /\ results' = [results EXCEPT ![c] = <<>>]
    /\ frames' = [frames EXCEPT ![c] = <<>>]
    /\ listener' = [listener EXCEPT ![c] = NoListener]
    /\ stream' = [stream EXCEPT ![c] = "none"]
    /\ UNCHANGED <<nevents, proc, client>>

\* The host acknowledges the message, or the call fails.
send_message_done(c) ==
    /\ Running /\ pc[c] = "sending"
    /\ \E acked \in BOOLEAN :
         /\ ret' = [ret EXCEPT ![c] = send_result(acked)]
         /\ unary' = [unary EXCEPT ![c] = IF acked THEN "acked" ELSE "failed"]
    /\ pc' = [pc EXCEPT ![c] = "idle"]
    /\ UNCHANGED <<nevents, proc, client, nops, listener, delivered, calls, results, frames, stream, sends, call, arg>>

\* ---------------------------------------------------- Client::register_listener
\* Listener::middleware(): the generated getter of an optional bool field.
middleware(l) == IF is_some(l.middleware) THEN l.middleware[1] ELSE FALSE

\* Mutant of listener_data: a default Listener is registered.
listener_data_default(l) == <<[kind |-> "Listener", listener |-> NoListener, msg |-> None]>>

\* stream::iter(vec![ListenerClientData { data: Some(Data::Listener(listener)) }])
listener_data(l) == <<[kind |-> "Listener", listener |-> l, msg |-> None]>>

\* `!listener.middleware() && result.is_some()`: the callback returned a value
\* although the listener is no middleware.
is_misuse(l, result) == ~middleware(l) /\ is_some(result)

\* Mutant of response_frames: the response is written, middleware or not.
response_frames_always(l, result) ==
    <<[kind |-> "Response", listener |-> NoListener, msg |-> result]>>

\* Frames the loop writes on the request stream after a callback returned
\* `result`: none.  `Data::Response(MiddlewareResponse { msg: result });` builds
\* the value and drops it (the "TBD: Send/Write this?" of the source).
response_frames(l, result) == <<>>

register_listener(c) ==
    /\ CanCall(c)
    /\ \E l \in Listeners, opened \in BOOLEAN :
         /\ listener' = [listener EXCEPT ![c] = l]
         /\ arg' = [arg EXCEPT ![c] = l]
         /\ frames' = [frames EXCEPT ![c] = listener_data(l)]
         /\ pc' = [pc EXCEPT ![c] = IF opened THEN "l_stream" ELSE "idle"]
         /\ stream' = [stream EXCEPT ![c] = IF opened THEN "open" ELSE "none"]
         /\ ret' = [ret EXCEPT ![c] = IF opened THEN "none" ELSE "Err(Status)"]
    /\ nops' = nops + 1
    /\ delivered' = [delivered EXCEPT ![c] = <<>>]
    /\ calls' = [calls EXCEPT ![c] = <<>>]
    /\ results' = [results EXCEPT ![c] = <<>>]
    /\ sends' = [sends EXCEPT ![c] = <<>>]
    /\ call' = [call EXCEPT ![c] = open_call(c, "RegisterListener")]
    /\ unary' = [unary EXCEPT ![c] = "none"]
    /\ UNCHANGED <<nevents, proc, client>>

\* Mutant of after_message: a stream error ends the loop like end-of-data.
after_message_swallow(outcome, body) ==
    IF outcome = "Some" THEN [pc |-> body, ret |-> "none", stream |-> "open"]
    ELSE IF outcome = "None" THEN [pc |-> "idle", ret |-> "Ok", stream |-> "eof"]
    ELSE [pc |-> "idle", ret |-> "Ok", stream |-> "broken"]

\* What the loop does with one outcome of `event.message().await?`:
\* Some(frame) enters the body, None leaves the loop with Ok(()), an error
\* returns it.
after_message(outcome, body) ==
    IF outcome = "Some" THEN [pc |-> body, ret |-> "none", stream |-> "open"]
    ELSE IF outcome = "None" THEN [pc |-> "idle", ret |-> "Ok", stream |-> "eof"]
    ELSE [pc |-> "idle", ret |-> "Err(Status)", stream |-> "broken"]

\* Mutant of invoke: the newest call is recorded first.
invoke_newest_first(log, frame) == <<frame>> \o log

\* The callback is invoked once with the frame that was read.
invoke(log, frame) == Append(log, frame)

\* event.message().await? yields; on Some(event) the callback is invoked.
listener_message(c) ==
    /\ Running /\ pc[c] = "l_stream"
    /\ \E outcome \in {"Some", "None", "Err"} :
         /\ pc' = [pc EXCEPT ![c] = after_message(outcome, "l_dispatch").pc]
         /\ ret' = [ret EXCEPT ![c] = after_message(outcome, "l_dispatch").ret]
         /\ stream' = [stream EXCEPT ![c] = after_message(outcome, "l_dispatch").stream]
         /\ IF outcome = "Some"
            THEN /\ nevents < MaxEvents
                 /\ nevents' = nevents + 1
                 /\ \E e \in Events :
                      /\ delivered' = [delivered EXCEPT ![c] = Append(@, e)]
                      /\ calls' = [calls EXCEPT ![c] = invoke(@, e)]
            ELSE UNCHANGED <<delivered, calls, nevents>>
    /\ UNCHANGED <<proc, client, nops, listener, results, frames, sends, call, arg, unary>>

\* The callback returns `result`; the rest of the loop body runs.
listener_callback_done(c) ==
    /\ Running /\ pc[c] = "l_dispatch"
    /\ \E result \in Replacements, abort \in BOOLEAN :
         /\ results' = [results EXCEPT ![c] = Append(@, result)]
         /\ IF is_misuse(listener[c], result)
            THEN /\ PanicEffect(c, abort)
                 /\ frames' = frames
            ELSE /\ abort = FALSE
                 /\ proc' = proc
                 /\ pc' = [pc EXCEPT ![c] = "l_stream"]
                 /\ stream' = stream
                 /\ frames' = [frames EXCEPT ![c] = @ \o response_frames(listener[c], result)]
    /\ UNCHANGED <<nevents, client, ret, nops, listener, delivered, calls, sends, call, arg, unary>>

\* The callback panics instead of returning.  Neither loop catches it:
\* `callback(event).await` unwinds through register_listener / register_cmd.
callback_panics(c) ==
    /\ Running /\ pc[c] \in {"l_dispatch", "c_dispatch"}
    /\ \E abort \in BOOLEAN :
         /\ pc' = [pc EXCEPT ![c] = "cb_panicked"]
         /\ stream' = [stream EXCEPT ![c] = "dropped"]
         /\ proc' = IF abort THEN "aborted" ELSE proc
    /\ UNCHANGED <<nevents, client, ret, nops, listener, delivered, calls, results, frames,
                   sends, call, arg, unary>>

\* --------------------------------------------------------- Client::register_cmd
\* Mutant of reply_send: an empty reply is not sent.
reply_send_skip_empty(c, log, room, result) ==
    IF result = "" THEN log ELSE issue_send(c, log, room, None, result, None)

\* self.send_message(room, None, result, None)
reply_send(c, log, room, result) == issue_send(c, log, room, None, result, None)

\* Mutant of await_reply: the reply is sent without being awaited.
await_reply_detached == "c_stream"

\* `self.send_message(..).await`: the loop waits for the reply's call.
await_reply == "c_reply"

\* What the loop does once the reply's send_message has returned:
\* `.await?` returns the error, otherwise the loop reads on.
after_reply(acked) ==
    IF acked THEN [pc |-> "c_stream", ret |-> "none", stream |-> "open"]
    ELSE [pc |-> "idle", ret |-> send_result(acked), stream |-> "dropped"]

\* Mutant of cmd_request: info and args_info change places.
cmd_request_swapped(d) ==
    <<[kind |-> "CmdDef",
       cmd |-> [name |-> d.name, info |-> d.args_info, args_info |-> d.info]]>>

\* CmdDef { name, info, args_info }, the request of the register_cmd call.
cmd_request(d) == <<[kind |-> "CmdDef", cmd |-> d]>>

register_cmd(c) ==
    /\ CanCall(c)
    /\ \E d \in CmdDefs, opened \in BOOLEAN :
         /\ frames' = [frames EXCEPT ![c] = cmd_request(d)]
         /\ arg' = [arg EXCEPT ![c] = d]
         /\ pc' = [pc EXCEPT ![c] = IF opened THEN "c_stream" ELSE "idle"]
         /\ stream' = [stream EXCEPT ![c] = IF opened THEN "open" ELSE "none"]
         /\ ret' = [ret EXCEPT ![c] = IF opened THEN "none" ELSE "Err(Status)"]
    /\ nops' = nops + 1
    /\ listener' = [listener EXCEPT ![c] = NoListener]
    /\ delivered' = [delivered EXCEPT ![c] = <<>>]
    /\ calls' = [calls EXCEPT ![c] = <<>>]
    /\ results' = [results EXCEPT ![c] = <<>>]
    /\ sends' = [sends EXCEPT ![c] = <<>>]
    /\ call' = [call EXCEPT ![c] = open_call(c, "RegisterCmd")]
    /\ unary' = [unary EXCEPT ![c] = "none"]
    /\ UNCHANGED <<nevents, proc, client>>

cmd_message(c) ==
    /\ Running /\ pc[c] = "c_stream"
    /\ \E outcome \in {"Some", "None", "Err"} :
         /\ pc' = [pc EXCEPT ![c] = after_message(outcome, "c_dispatch").pc]
         /\ ret' = [ret EXCEPT ![c] = after_message(outcome, "c_dispatch").ret]
         /\ stream' = [stream EXCEPT ![c] = after_message(outcome, "c_dispatch").stream]
         /\ IF outcome = "Some"
            THEN /\ nevents < MaxEvents
                 /\ nevents' = nevents + 1
                 /\ \E e \in CmdInvocations :
                      /\ delivered' = [delivered EXCEPT ![c] = Append(@, e)]
                      /\ calls' = [calls EXCEPT ![c] = invoke(@, e)]
            ELSE UNCHANGED <<delivered, calls, nevents>>
    /\ UNCHANGED <<proc, client, nops, listener, results, frames, sends, call, arg, unary>>

\* The callback returns `result`; send_message is called with the room saved
\* from the invocation and awaited.
cmd_callback_done(c) ==
    /\ Running /\ pc[c] = "c_dispatch"
    /\ \E result \in Replies :
         /\ results' = [results EXCEPT ![c] = Append(@, result)]
         /\ sends' = [sends EXCEPT ![c] =
                        reply_send(c, @, calls[c][Len(calls[c])].room, result)]
    /\ unary' = [unary EXCEPT ![c] = "pending"]
    /\ pc' = [pc EXCEPT ![c] = await_reply]
    /\ UNCHANGED <<nevents, proc, client, ret, nops, listener, delivered, calls, frames, stream, call, arg>>

\* The reply's send_message returns.
cmd_reply_done(c) ==
    /\ Running /\ pc[c] = "c_reply"
    /\ \E acked \in BOOLEAN :
         /\ pc' = [pc EXCEPT ![c] = after_reply(acked).pc]
         /\ ret' = [ret EXCEPT ![c] = after_reply(acked).ret]
         /\ stream' = [stream EXCEPT ![c] = after_reply(acked).stream]
         /\ unary' = [unary EXCEPT ![c] = IF acked THEN "acked" ELSE "failed"]
    /\ UNCHANGED <<nevents, proc, client, nops, listener, delivered, calls, results, frames, sends, call, arg>>

\* ------------------------------------------------------------ specification
Init ==
    /\ proc = "running"
    /\ client = [c \in Clients |-> NoClient]
    /\ pc = [c \in Clients |-> "start"]
    /\ ret = [c \in Clients |-> "none"]
    /\ nops = 0
    /\ nevents = 0
    /\ listener = [c \in Clients |-> NoListener]
    /\ delivered = [c \in Clients |-> <<>>]
    /\ calls = [c \in Clients |-> <<>>]
    /\ results = [c \in Clients |-> <<>>]
    /\ frames = [c \in Clients |-> <<>>]
    /\ stream = [c \in Clients |-> "none"]
    /\ sends = [c \in Clients |-> <<>>]
    /\ call = [c \in Clients |-> NoCall]
    /\ arg = [c \in Clients |-> NoListener]
    /\ unary = [c \in Clients |-> "none"]

Next ==
    \E c \in Clients :
        \/ Client_new(c)
        \/ send_message(c)
        \/ send_message_done(c)
        \/ register_listener(c)
        \/ listener_message(c)
        \/ listener_callback_done(c)
        \/ callback_panics(c)
        \/ register_cmd(c)
        \/ cmd_message(c)
        \/ cmd_callback_done(c)
        \/ cmd_reply_done(c)

Spec == Init /\ [][Next]_vars

\* ------------------------------------------------------------------ helpers
IsListener(c) == frames[c] # <<>> /\ frames[c][1].kind = "Listener"
IsCmd(c) == frames[c] # <<>> /\ frames[c][1].kind = "CmdDef"
InSession(c) == pc[c] \in {"l_stream", "l_dispatch", "c_stream", "c_dispatch", "c_reply"}
Closed(c) == stream[c] \in {"eof", "broken"}
\* A MiddlewareResponse carrying results[c][i] is among the frames written.
Responded(c, i) ==
    \E j \in 2..Len(frames[c]) :
        frames[c][j].kind = "Response" /\ frames[c][j].msg = results[c][i]

\* ------------------------------------------------------------------- claims

\* C1: on a listener session the callback is invoked once for every Event
\* read from the stream, in the order the Events were read; one invocation at
\* most has not returned yet, and that only while the session is dispatching.
C1_HandlerOncePerEventInOrder ==
    \A c \in Clients :
        IsListener(c) =>
            /\ calls[c] = delivered[c]
            /\ Len(results[c]) =
                 IF pc[c] \in {"l_dispatch", "cb_panicked"}
                 THEN Len(calls[c]) - 1 ELSE Len(calls[c])

C1_Witness ==
    \E c \in Clients :
        /\ IsListener(c) /\ pc[c] = "l_stream"
        /\ Len(delivered[c]) = 2 /\ delivered[c][1] # delivered[c][2]
        /\ Len(results[c]) = 2

\* C2: on a middleware listener every present replacement the callback has
\* returned has its MiddlewareResponse frame on the stream, written by the
\* time the loop goes on to read the next Event.
C2_ResponseWrittenBeforeNextRead ==
    \A c \in Clients :
        (IsListener(c) /\ middleware(listener[c])) =>
            \A i \in 1..Len(results[c]) : is_some(results[c][i]) => Responded(c, i)

\* C3: on a listener that is no middleware, a present replacement ends the
\* session with a ProtocolMisuse error returned from register_listener.
C3_MisuseReturnsTypedError ==
    \A c \in Clients :
        (/\ IsListener(c) /\ ~middleware(listener[c])
         /\ \E i \in 1..Len(results[c]) : is_some(results[c][i]))
        => (pc[c] = "idle" /\ ret[c] = "Err(ProtocolMisuse)")

\* C4: in a command session the send_message requests issued are exactly one
\* per invocation whose callback has returned, in order, each with the room
\* of its invocation, no sender, the returned text and no ephemeral
\* recipient; no other request is issued.
C4_OneReplyPerInvocation ==
    \A c \in Clients :
        IsCmd(c) =>
            /\ Len(sends[c]) = Len(results[c])
            /\ Len(sends[c]) =
                 IF pc[c] \in {"c_dispatch", "cb_panicked"}
                 THEN Len(delivered[c]) - 1 ELSE Len(delivered[c])
            /\ \A i \in 1..Len(sends[c]) :
                 sends[c][i].message =
                     [room |-> delivered[c][i].room, from |-> None,
                      msg |-> results[c][i], ephemeral_to |-> None]

C4_Witness ==
    \E c \in Clients :
        /\ IsCmd(c) /\ pc[c] = "c_stream"
        /\ Len(delivered[c]) = 2 /\ delivered[c][1].room # delivered[c][2].room
        /\ Len(sends[c]) = 2 /\ sends[c][1].message.msg = ""

\* C5: a failed reply send does not end a command session: the session is
\* closed only by end-of-data or by an error of its invocation stream.
C5_ReplyFailureNonFatal ==
    \A c \in Clients :
        (IsCmd(c) /\ pc[c] = "idle") => stream[c] \in {"none", "eof", "broken"}

\* C6: at most one event of a session is in flight, an event being in flight
\* from its read until its callback has returned and, on a middleware
\* listener with a present replacement, its response has been written.
C6_InFlight(c) ==
    {i \in 1..Len(delivered[c]) :
        ~(/\ i <= Len(results[c])
          /\ (IsListener(c) /\ middleware(listener[c]) /\ is_some(results[c][i]))
                => Responded(c, i))}

C6_AtMostOneInFlight == \A c \in Clients : Cardinality(C6_InFlight(c)) <= 1

\* C7: while a session of a Client is streaming or dispatching, its owner can
\* register another session through the same Client.
C7_RegisterWhileStreaming ==
    \A c \in Clients :
        (Running /\ InSession(c) /\ nops < MaxOps)
        => ENABLED (register_listener(c) \/ register_cmd(c))

\* C8: end-of-data closes a session with Ok(()), a stream error closes it
\* with the error as the result of the register call, and a closed session
\* reads no frame, invokes no callback and issues no write or send.
C8_ClosedIsTerminal ==
    [][\A c \in Clients :
         /\ stream'[c] = "eof" => (pc'[c] = "idle" /\ ret'[c] = "Ok")
         /\ stream'[c] = "broken" => (pc'[c] = "idle" /\ ret'[c] = "Err(Status)")
         /\ (Closed(c) /\ stream'[c] = stream[c]) =>
                /\ delivered'[c] = delivered[c] /\ calls'[c] = calls[c]
                /\ results'[c] = results[c] /\ frames'[c] = frames[c]
                /\ sends'[c] = sends[c] /\ ret'[c] = ret[c]]_vars

C8_Witness ==
    \E c, d \in Clients :
        /\ c # d
        /\ stream[c] = "broken" /\ Len(results[c]) >= 1
        /\ stream[d] = "eof" /\ Len(results[d]) >= 1

\* C9: when a session has ended by a terminal error, every other session
\* that is streaming or dispatching is still running.
C9_TerminalErrorIsolated ==
    \A c, d \in Clients :
        (/\ c # d /\ InSession(d)
         /\ \/ stream[c] = "broken"
            \/ (pc[c] = "panicked" /\ client[c].st = "ok"))
        => Running

\* C10: Client::new with a token that is no ASCII header value returns an
\* error to its caller; it neither panics nor yields a Client.
C10_BadTokenReturnsError ==
    \A c \in Clients :
        (client[c].st # "none" /\ ~header_parses(client[c].given))
        => (client[c].st = "err" /\ pc[c] = "failed")

\* C11: every call a Client issues, the register_listener and register_cmd
\* calls, a direct send_message and the reply sends of a command session,
\* carries authorization = "Bearer " followed by the token given to
\* Client::new, and the Client keeps that value for as long as it exists.
C11_EveryCallAuthorized ==
    [][\A c \in Clients :
         /\ client[c].st = "ok" => client'[c] = client[c]
         /\ client'[c].st = "ok" =>
              /\ call'[c].method # "none" =>
                   call'[c].authorization = Bearer \o client'[c].given
              /\ \A i \in 1..Len(sends'[c]) :
                   sends'[c][i].authorization = Bearer \o client'[c].given]_vars

C11_Witness ==
    \E c, d \in Clients :
        /\ c # d
        /\ call[c].method = "RegisterCmd" /\ Len(sends[c]) >= 1
        /\ call[d].method = "SendMessage" /\ Len(sends[d]) = 1
        /\ sends[c][1].authorization = sends[d][1].authorization

\* C12: a callback that fails while handling an Event does not close its
\* listener session.
C12_HandlerFailureCaught ==
    \A c \in Clients :
        (IsListener(c) /\ pc[c] = "cb_panicked") => stream[c] = "open"

\* C13: the Message of a send_message call has the room, from, msg and
\* ephemeral_to the call was given: None stays None, Some(v) stays Some(v),
\* the empty string included.
C13_SendPassesFieldsUnchanged ==
    \A c \in Clients :
        call[c].method = "SendMessage" =>
            \A i \in 1..Len(sends[c]) :
                /\ sends[c][i].message.room = arg[c].room
                /\ sends[c][i].message.msg = arg[c].msg
                /\ sends[c][i].message.from = arg[c].from
                /\ sends[c][i].message.ephemeral_to = arg[c].ephemeral_to
                /\ is_some(sends[c][i].message.from) = is_some(arg[c].from)
                /\ is_some(sends[c][i].message.ephemeral_to) = is_some(arg[c].ephemeral_to)

C13_Witness ==
    \E c, d \in Clients :
        /\ c # d
        /\ call[c].method = "SendMessage" /\ Len(sends[c]) = 1
        /\ arg[c].from = None /\ arg[c].ephemeral_to = None
        /\ call[d].method = "SendMessage" /\ Len(sends[d]) = 1
        /\ arg[d].from = Some("") /\ sends[d][1].message.from = Some("")

\* C14: a send_message call issues one unary call and waits for it; when
\* that call fails the error is returned, when it is acknowledged Ok(()) is.
C14_SendFailureReturnsError ==
    \A c \in Clients :
        call[c].method = "SendMessage" =>
            /\ Len(sends[c]) = 1
            /\ pc[c] \in {"sending", "idle"}
            /\ (unary[c] = "pending") = (pc[c] = "sending")
            /\ unary[c] = "failed" => ret[c] = "Err(Status)"
            /\ unary[c] = "acked" => ret[c] = "Ok"

C14_Witness ==
    \E c \in Clients :
        /\ call[c].method = "SendMessage" /\ unary[c] = "failed"
        /\ pc[c] = "idle" /\ ret[c] = "Err(Status)"

\* C15: the request stream of register_listener starts with one Listener
\* frame that carries the Listener the call was given, no other Listener
\* frame follows, no Event is read without it, and when the call cannot be
\* opened its error is returned with no Event read and no callback invoked.
C15_OneInitialListenerFrame ==
    \A c \in Clients :
        call[c].method = "RegisterListener" =>
            /\ frames[c] # <<>>
            /\ frames[c][1].kind = "Listener"
            /\ frames[c][1].listener = arg[c]
            /\ \A j \in 2..Len(frames[c]) : frames[c][j].kind # "Listener"
            /\ stream[c] = "none" =>
                 /\ pc[c] = "idle" /\ ret[c] = "Err(Status)"
                 /\ delivered[c] = <<>> /\ calls[c] = <<>>

C15_Witness ==
    \E c, d \in Clients :
        /\ c # d
        /\ call[c].method = "RegisterListener" /\ stream[c] = "none"
        /\ call[d].method = "RegisterListener" /\ Len(delivered[d]) >= 1
        /\ is_some(arg[d].regex)

\* C16: on a middleware listener as many MiddlewareResponse frames have been
\* written as callbacks have returned a present replacement.
C16_ResponsesMatchPresentResults ==
    \A c \in Clients :
        (IsListener(c) /\ middleware(listener[c])) =>
            Cardinality({j \in 2..Len(frames[c]) : frames[c][j].kind = "Response"})
            = Cardinality({i \in 1..Len(results[c]) : is_some(results[c][i])})

\* C17: in a command session a reply's call is pending only while the loop
\* waits for it, so every reply but that of the newest invocation is over
\* when an invocation is read; replies go out in the order of the
\* invocations, one for each callback that has returned.
C17_ReplyCompletesBeforeNextRead ==
    \A c \in Clients :
        IsCmd(c) =>
            /\ unary[c] = "pending" => pc[c] = "c_reply"
            /\ Len(sends[c]) - (IF unary[c] = "pending" THEN 1 ELSE 0)
                 >= Len(delivered[c]) - 1
            /\ Len(results[c]) - Len(sends[c]) \in {0, 1}
            /\ \A i \in 1..Len(sends[c]) : sends[c][i].message.room = delivered[c][i].room

C17_Witness ==
    \E c \in Clients :
        /\ IsCmd(c) /\ pc[c] = "c_reply" /\ unary[c] = "pending"
        /\ Len(delivered[c]) = 2 /\ Len(sends[c]) = 2

\* C18: register_cmd issues one registration request, the CmdDef with the
\* name, info and args_info it was given; when that call fails the error is
\* returned with no invocation read, no callback invoked and nothing sent.
C18_OneCmdDefRegistration ==
    \A c \in Clients :
        call[c].method = "RegisterCmd" =>
            /\ Len(frames[c]) = 1
            /\ frames[c][1].kind = "CmdDef"
            /\ frames[c][1].cmd.name = arg[c].name
            /\ frames[c][1].cmd.info = arg[c].info
            /\ frames[c][1].cmd.args_info = arg[c].args_info
            /\ stream[c] = "none" =>
                 /\ pc[c] = "idle" /\ ret[c] = "Err(Status)"
                 /\ delivered[c] = <<>> /\ calls[c] = <<>> /\ sends[c] = <<>>

C18_Witness ==
    \E c, d \in Clients :
        /\ c # d
        /\ call[c].method = "RegisterCmd" /\ stream[c] = "none"
        /\ call[d].method = "RegisterCmd" /\ Len(delivered[d]) >= 1

\* C19: a listener that is no middleware has only its initial Listener frame
\* on its request stream, whatever Events arrive and whatever the callback
\* returns.
C19_NonMiddlewareWritesNothing ==
    \A c \in Clients :
        (call[c].method = "RegisterListener" /\ ~middleware(listener[c]))
        => Len(frames[c]) = 1

C19_Witness ==
    \E c \in Clients :
        /\ call[c].method = "RegisterListener" /\ ~middleware(listener[c])
        /\ Len(results[c]) = 2 /\ pc[c] = "l_stream"

\* C20 (as amended): Client::new dials at most once, once when the host
\* parses as a URI and not at all otherwise; the token is examined only
\* after a dial that succeeded and before a Client exists; a failed dial
\* returns the connection error with the token unexamined.
C20_TokenAfterOneDial ==
    \A c \in Clients :
        client[c].st # "none" =>
            /\ client[c].dials \in {0, 1}
            /\ client[c].dials = 0 =>
                 (client[c].st = "err" /\ ret[c] = "Err(InvalidUri)" /\ ~client[c].examined)
            /\ client[c].examined => (client[c].dials = 1 /\ client[c].st \in {"ok", "panic"})
            /\ (client[c].st = "err" /\ client[c].dials = 1) =>
                 (~client[c].examined /\ ret[c] = "Err(transport::Error)" /\ pc[c] = "failed")
            /\ client[c].st = "ok" => (client[c].examined /\ header_parses(client[c].given))

C20_Witness ==
    \E c, d \in Clients :
        /\ c # d
        /\ client[c].st = "err" /\ client[c].dials = 1 /\ ~header_parses(client[c].given)
        /\ client[d].st = "ok" /\ client[d].examined

\* C20 (as stated): every Client::new makes exactly one dial attempt.
C20_ExactlyOneDial ==
    \A c \in Clients : client[c].st # "none" => client[c].dials = 1

====
